---------------------------- MODULE Spec2Model ----------------------------
(***************************************************************************)
(* A model of src/main.py: the pipeline                                    *)
(*     preprocess -> assign_scopes -> parse(text, scope_table, 0)          *)
(* Texts are sequences of one-character strings.  Positions kept in the    *)
(* state are Python's 0-based positions; At and Slice translate them.      *)
(***************************************************************************)
EXTENDS Integers, Sequences, FiniteSets, TLC

(***************************************************************************)
(* Bounds of the input families.                                           *)
(***************************************************************************)
MaxPreLen == 4
MaxBracketLen == 4
MaxPrimPieces == 3
MaxElems == 2
MaxMembers == 2

(***************************************************************************)
(* Characters and Python's string operations.                              *)
(***************************************************************************)
Quote == "\""

\* The characters the regex class \s matches (the ASCII ones).
Whitespace == {" ", "\t", "\n", "\r", "\f"}

\* The characters the regex class \d matches (the ASCII ones).
Digits == {"0", "1", "2", "3", "4", "5", "6", "7", "8", "9"}

Letters ==
    {"a", "b", "c", "d", "e", "f", "g", "h", "i", "j", "k", "l", "m",
     "n", "o", "p", "q", "r", "s", "t", "u", "v", "w", "x", "y", "z",
     "A", "B", "C", "D", "E", "F", "G", "H", "I", "J", "K", "L", "M",
     "N", "O", "P", "Q", "R", "S", "T", "U", "V", "W", "X", "Y", "Z"}

\* The characters the regex class \w matches (the ASCII ones); \b is a
\* boundary between a \w character and a non-\w character or an end.
WordChars == Letters \cup Digits \cup {"_"}

Min(a, b) == IF a < b THEN a ELSE b

\* s[p] for a 0-based position p.
At(s, p) == s[p + 1]

\* s[a:b] for 0 <= a, 0 <= b: Python clamps a slice to the string.
Slice(s, a, b) == SubSeq(s, a + 1, Min(b, Len(s)))

\* s[1:-1]
StripEnds(s) == SubSeq(s, 2, Len(s) - 1)

\* s.index(c, from): the first position >= from holding c, or -1 where
\* Python raises ValueError.
IndexFrom(s, c, from) ==
    LET found == {p \in from..(Len(s) - 1) : At(s, p) = c}
    IN  IF found = {} THEN -1
        ELSE CHOOSE p \in found : \A q \in found : p <= q

(***************************************************************************)
(* preprocess                                                              *)
(***************************************************************************)
\* re.sub(r"\s+", "", c) on the one-character string c.
StripSpaces(c) == IF c \in Whitespace THEN << >> ELSE <<c>>

\* The flag inside_quotes once the k-th character has been looked at: it
\* starts False and is negated at every quote (lines 21, 23-24), so it is
\* True when the first k characters hold an odd number of quotes.
InsideQuotes(source, k) ==
    Cardinality({j \in 1..k : source[j] = Quote}) % 2 = 1

\* A faulty variant of PreprocessChar: strips whitespace inside quotes too.
PreprocessCharBug(c, inside_quotes) == StripSpaces(c)

\* What one character adds to the output (lines 25-28).
PreprocessChar(c, inside_quotes) ==
    IF ~inside_quotes THEN StripSpaces(c) ELSE <<c>>

\* What the characters source[lo..hi] add to the output, in their order.
RECURSIVE PreprocessSpan(_, _, _)
PreprocessSpan(source, lo, hi) ==
    IF lo > hi THEN << >>
    ELSE IF lo = hi
    THEN PreprocessChar(source[lo], InsideQuotes(source, lo))
    ELSE PreprocessSpan(source, lo, (lo + hi) \div 2)
             \o PreprocessSpan(source, (lo + hi) \div 2 + 1, hi)

preprocess(source) == PreprocessSpan(source, 1, Len(source))

(***************************************************************************)
(* Values and errors.                                                      *)
(***************************************************************************)
\* A returned value: t is its Python type, v what it holds.
StrValue(s) == [t |-> "str", v |-> s]
BoolValue(b) == [t |-> "bool", v |-> b]
FloatValue(n) == [t |-> "float", v |-> n]
NoneValue == [t |-> "None", v |-> << >>]
ListValue(l) == [t |-> "list", v |-> l]
DictValue(d) == [t |-> "dict", v |-> d]

\* An exception: its class, its message and the text it carries.
NoError == [cls |-> "", msg |-> "", arg |-> << >>]
Raised(msg, text) == [cls |-> "Exception", msg |-> msg, arg |-> text]
ValueError(text) ==
    [cls |-> "ValueError", msg |-> "could not convert string to float",
     arg |-> text]

(***************************************************************************)
(* The regular expressions of the primitive branch, under re.match: a      *)
(* match of a prefix of the text.                                          *)
(***************************************************************************)
\* re.match(r'"(.*?)"', s): an opening quote and a later quote with no line
\* break between them ('.' matches every character but "\n").
StringMatch(s) ==
    /\ Len(s) >= 2
    /\ s[1] = Quote
    /\ \E j \in 2..Len(s) :
          /\ s[j] = Quote
          /\ \A k \in 2..(j - 1) : s[k] # "\n"

\* re.match(r"-?\d+(\.\d+)?", s): the optional groups may match nothing, so
\* the pattern matches as soon as a digit follows the optional minus.
NumberMatch(s) ==
    \/ Len(s) >= 1 /\ s[1] \in Digits
    \/ Len(s) >= 2 /\ s[1] = "-" /\ s[2] \in Digits

\* Whether the word w stands at the start of s with a \b on both sides.
WordMatch(s, w) ==
    /\ Len(s) >= Len(w)
    /\ SubSeq(s, 1, Len(w)) = w
    /\ w[1] \in WordChars
    /\ \/ Len(s) = Len(w)
       \/ (s[Len(w) + 1] \in WordChars) # (w[Len(w)] \in WordChars)

TrueWord == <<"t", "r", "u", "e">>
FalseWord == <<"f", "a", "l", "s", "e">>
NullWord == <<"n", "u", "l", "l">>

\* re.match(r"\b(true|false)\b", s)
BoolMatch(s) == WordMatch(s, TrueWord) \/ WordMatch(s, FalseWord)

\* re.match(r"\bnull\b", s)
NullMatch(s) == WordMatch(s, NullWord)

\* bool(s) of a string: whether it is non-empty.
PyBool(s) == Len(s) > 0


(***************************************************************************)
(* float(s) on the texts the number pattern lets through: they start with  *)
(* a digit or with a minus and a digit.  A float is held as the decimal    *)
(* m * 10^e with m not a multiple of 10 (0 is m = 0, e = 0; Python's -0.0  *)
(* equals 0.0), which tells apart every two literals of the lengths met    *)
(* here exactly as float equality does.                                    *)
(***************************************************************************)
DigitVal(c) ==
    CASE c = "0" -> 0 [] c = "1" -> 1 [] c = "2" -> 2 [] c = "3" -> 3
      [] c = "4" -> 4 [] c = "5" -> 5 [] c = "6" -> 6 [] c = "7" -> 7
      [] c = "8" -> 8 [] c = "9" -> 9

RECURSIVE Normalised(_, _)
Normalised(m, e) ==
    IF m = 0 THEN [m |-> 0, e |-> 0]
    ELSE IF m % 10 = 0 THEN Normalised(m \div 10, e + 1)
    ELSE [m |-> m, e |-> e]

\* The scan of float(): st is the part of the literal the scan is in, neg
\* and eneg the signs read, m the mantissa's digits as a number, fd how
\* many of them follow the point, ex the exponent's digits as a number.
\* Underscores may stand between two digits; white space may end the text.
RECURSIVE FloatScan(_, _, _, _, _, _, _, _)
FloatScan(s, k, st, neg, m, fd, eneg, ex) ==
    IF k > Len(s)
    THEN IF st \in {"int", "dot", "frac", "exp", "ws"}
         THEN [ok |-> TRUE,
               n |-> Normalised(IF neg THEN 0 - m ELSE m,
                                (IF eneg THEN 0 - ex ELSE ex) - fd)]
         ELSE [ok |-> FALSE, n |-> Normalised(0, 0)]
    ELSE LET c == s[k]
             fail == [ok |-> FALSE, n |-> Normalised(0, 0)]
             go(st2, m2, fd2, ex2) ==
                 FloatScan(s, k + 1, st2, neg, m2, fd2, eneg, ex2)
         IN  CASE st = "start" /\ c = "-" ->
                    FloatScan(s, k + 1, "sign", TRUE, m, fd, eneg, ex)
               [] st \in {"start", "sign", "int", "int_"} /\ c \in Digits ->
                    go("int", 10 * m + DigitVal(c), fd, ex)
               [] st = "int" /\ c = "_" -> go("int_", m, fd, ex)
               [] st = "int" /\ c = "." -> go("dot", m, fd, ex)
               [] st \in {"dot", "frac", "frac_"} /\ c \in Digits ->
                    go("frac", 10 * m + DigitVal(c), fd + 1, ex)
               [] st = "frac" /\ c = "_" -> go("frac_", m, fd, ex)
               [] st \in {"int", "dot", "frac"} /\ c \in {"e", "E"} ->
                    go("e", m, fd, ex)
               [] st = "e" /\ c = "-" ->
                    FloatScan(s, k + 1, "esign", neg, m, fd, TRUE, ex)
               [] st = "e" /\ c = "+" -> go("esign", m, fd, ex)
               [] st \in {"e", "esign", "exp", "exp_"} /\ c \in Digits ->
                    go("exp", m, fd, 10 * ex + DigitVal(c))
               [] st = "exp" /\ c = "_" -> go("exp_", m, fd, ex)
               [] st \in {"int", "dot", "frac", "exp", "ws"}
                    /\ c \in Whitespace -> go("ws", m, fd, ex)
               [] OTHER -> fail

PyFloat(s) == FloatScan(s, 1, "start", FALSE, 0, 0, FALSE, 0)

(***************************************************************************)
(* The primitive branch of parse (lines 171-181): the outcome of the call, *)
(* a returned value or a raised exception.                                 *)
(***************************************************************************)
NoValue == [t |-> "", v |-> << >>]
Returns(value) == [error |-> NoError, value |-> value]
Raises(error) == [error |-> error, value |-> NoValue]

ParsePrimitive(to_parse) ==
    IF StringMatch(to_parse) THEN Returns(StrValue(StripEnds(to_parse)))
    ELSE IF NumberMatch(to_parse)
    THEN IF PyFloat(to_parse).ok
         THEN Returns(FloatValue(PyFloat(to_parse).n))
         ELSE Raises(ValueError(to_parse))
    ELSE IF BoolMatch(to_parse) THEN Returns(BoolValue(PyBool(to_parse)))
    ELSE IF NullMatch(to_parse) THEN Returns(NoneValue)
    ELSE Raises(Raised("Unknown object", to_parse))

(***************************************************************************)
(* The state of one run of apply_all (lines 185-191).                      *)
(***************************************************************************)
VARIABLES
    pc,            \* where the run is: "preprocess", "assign_scopes",
                   \* "call", "loop", "return" or "done"
    source,        \* the text given to apply_all
    preprocessed,  \* the text preprocess returned
    scan_i,        \* assign_scopes: the position of the character scanned
    square_stack,  \* assign_scopes: positions of the open square brackets
    curly_stack,   \* assign_scopes: positions of the open curly brackets
    type_stack,    \* assign_scopes: the open brackets' characters
    scope_table,   \* position of an opening bracket -> distance to its pair
    stack,         \* the calls of parse that are in their loop, outermost first
    arg,           \* the arguments of the call of parse being entered
    retval,        \* the value a call of parse is returning
    result,        \* the value the outermost parse returned
    error          \* the exception that ended the run, or NoError

vars ==
    <<pc, source, preprocessed, scan_i, square_stack, curly_stack,
      type_stack, scope_table, stack, arg, retval, result, error>>

scanVars == <<scan_i, square_stack, curly_stack, type_stack, scope_table>>
parseVars == <<stack, arg, retval, result>>

Last(s) == s[Len(s)]
Front(s) == SubSeq(s, 1, Len(s) - 1)

NoArg == [to_parse |-> << >>, start |-> 0]

\* An exception leaves every call and ends the run (lines 198-200).
Raise(e) ==
    /\ pc' = "done"
    /\ error' = e
    /\ stack' = << >>

(***************************************************************************)
(* apply_all, line 186: preprocess(source).                                *)
(***************************************************************************)
Preprocess ==
    /\ pc = "preprocess"
    /\ preprocessed' = preprocess(source)
    /\ pc' = "assign_scopes"
    /\ UNCHANGED <<source, scanVars, parseVars, error>>

(***************************************************************************)
(* assign_scopes (lines 32-68), one action per branch of the loop body.    *)
(***************************************************************************)
\* The distance recorded for the bracket at left closed at position i.
ScopeEntry(left, i) == i - left

\* A faulty variant of PairedOpener: pairs with the outermost open bracket.
PairedOpenerBug(kind_stack) == kind_stack[1]

\* The bracket a closing bracket pairs with: the innermost open one of its
\* kind (lines 49, 60).
PairedOpener(kind_stack) == Last(kind_stack)

\* The message of the exception a closing bracket raises, "" if none: first
\* the test of its own kind's stack, then the test of the innermost open
\* bracket (lines 44-47, 55-58).
CloseError(kind_stack, types, opener, extra) ==
    IF kind_stack = << >> THEN extra
    ELSE IF Last(types) # opener THEN "Mismatched bracket types"
    ELSE ""

Scanning == pc = "assign_scopes" /\ scan_i < Len(preprocessed)

ScanOpenSquare ==
    /\ Scanning
    /\ At(preprocessed, scan_i) = "["
    /\ square_stack' = Append(square_stack, scan_i)
    /\ type_stack' = Append(type_stack, "[")
    /\ scan_i' = scan_i + 1
    /\ UNCHANGED <<pc, source, preprocessed, curly_stack, scope_table,
                   parseVars, error>>

ScanCloseSquare ==
    /\ Scanning
    /\ At(preprocessed, scan_i) = "]"
    /\ LET msg == CloseError(square_stack, type_stack, "[",
                             "Extra square bracket")
           left == PairedOpener(square_stack)
       IN  IF msg # ""
           THEN /\ Raise(Raised(msg, << >>))
                /\ UNCHANGED <<scanVars, arg, retval, result>>
           ELSE /\ type_stack' = Front(type_stack)
                /\ square_stack' = Front(square_stack)
                /\ scope_table' =
                       (left :> ScopeEntry(left, scan_i)) @@ scope_table
                /\ scan_i' = scan_i + 1
                /\ UNCHANGED <<pc, curly_stack, parseVars, error>>
    /\ UNCHANGED <<source, preprocessed>>

ScanOpenCurly ==
    /\ Scanning
    /\ At(preprocessed, scan_i) = "{"
    /\ curly_stack' = Append(curly_stack, scan_i)
    /\ type_stack' = Append(type_stack, "{")
    /\ scan_i' = scan_i + 1
    /\ UNCHANGED <<pc, source, preprocessed, square_stack, scope_table,
                   parseVars, error>>

ScanCloseCurly ==
    /\ Scanning
    /\ At(preprocessed, scan_i) = "}"
    /\ LET msg == CloseError(curly_stack, type_stack, "{",
                             "Extra curly bracket")
           left == PairedOpener(curly_stack)
       IN  IF msg # ""
           THEN /\ Raise(Raised(msg, << >>))
                /\ UNCHANGED <<scanVars, arg, retval, result>>
           ELSE /\ type_stack' = Front(type_stack)
                /\ curly_stack' = Front(curly_stack)
                /\ scope_table' =
                       (left :> ScopeEntry(left, scan_i)) @@ scope_table
                /\ scan_i' = scan_i + 1
                /\ UNCHANGED <<pc, square_stack, parseVars, error>>
    /\ UNCHANGED <<source, preprocessed>>

ScanOther ==
    /\ Scanning
    /\ At(preprocessed, scan_i) \notin {"[", "]", "{", "}"}
    /\ scan_i' = scan_i + 1
    /\ UNCHANGED <<pc, source, preprocessed, square_stack, curly_stack,
                   type_stack, scope_table, parseVars, error>>

\* The end of the scan (lines 63-68) and, when it returns the table, the
\* call parse(preprocessed, scope_table, 0) of lines 187-191.
ScanEnd ==
    /\ pc = "assign_scopes"
    /\ scan_i = Len(preprocessed)
    /\ IF square_stack # << >>
       THEN /\ Raise(Raised("Missing square bracket", << >>))
            /\ UNCHANGED <<arg>>
       ELSE IF curly_stack # << >>
       THEN /\ Raise(Raised("Missing curly bracket", << >>))
            /\ UNCHANGED <<arg>>
       ELSE /\ pc' = "call"
            /\ arg' = [to_parse |-> preprocessed, start |-> 0]
            /\ UNCHANGED <<stack, error>>
    /\ UNCHANGED <<source, preprocessed, scanVars, retval, result>>

(***************************************************************************)
(* parse (lines 71-181).  A call is entered at pc = "call" with its        *)
(* arguments in arg; a call in its while loop is the last record of stack; *)
(* a call that returns leaves its value in retval at pc = "return".        *)
(***************************************************************************)
EmptyArrayText == <<"[", "]">>
EmptyObjectText == <<"{", "}">>

\* A faulty variant of ChildStart: forgets the length of value.
ChildStartBug(start, i, value) == start + i

\* The start given to a recursive call: start + i - len(value)
\* (lines 95, 105, 142, 162).
ChildStart(start, i, value) == start + i - Len(value)

\* A faulty variant of AfterSkip: the cursor stops short of the closing bracket.
AfterSkipBug(i, skip) == i + skip - 1

\* The cursor after a nested container was copied: i += skip + 1
\* (lines 89, 132).
AfterSkip(i, skip) == i + skip + 1

\* The characters copied for a nested container: to_parse[i : i + skip + 1]
\* (lines 88, 131).
SkippedSpan(to_parse, i, skip) == Slice(to_parse, i, i + skip + 1)

\* The test of an object key: re.match(r"\"(.*?)\"", key) (lines 135, 155).
KeyMatch(key) == StringMatch(key)

\* ret[key] = value on a dict held as its items in insertion order: a key
\* already there keeps its place and takes the new value.
DictPut(d, key, value) ==
    IF \E n \in 1..Len(d) : d[n].key = key
    THEN [n \in 1..Len(d) |->
             IF d[n].key = key THEN [key |-> key, value |-> value] ELSE d[n]]
    ELSE Append(d, [key |-> key, value |-> value])

Top == stack[Len(stack)]
WithTop(f) == [stack EXCEPT ![Len(stack)] = f]

Return(value) ==
    /\ pc' = "return"
    /\ retval' = value

\* The call parse(value, scope_table, start + i - len(value)) made by the
\* call f, which waits for it at the branch named by wait.
Call(f, wait) ==
    /\ pc' = "call"
    /\ arg' = [to_parse |-> f.value,
               start |-> ChildStart(f.start, f.i, f.value)]
    /\ stack' = WithTop([f EXCEPT !.wait = wait])

Entering == pc = "call"

\* line 72-73
CallEmpty ==
    /\ Entering
    /\ arg.to_parse = << >>
    /\ Raise(Raised("Invalid primitive", arg.to_parse))
    /\ UNCHANGED <<source, preprocessed, scanVars, arg, retval, result>>

\* line 74-75
CallEmptyArray ==
    /\ Entering
    /\ arg.to_parse = EmptyArrayText
    /\ Return(ListValue(<< >>))
    /\ UNCHANGED <<source, preprocessed, scanVars, stack, arg, result, error>>

\* line 76-77
CallEmptyObject ==
    /\ Entering
    /\ arg.to_parse = EmptyObjectText
    /\ Return(DictValue(<< >>))
    /\ UNCHANGED <<source, preprocessed, scanVars, stack, arg, result, error>>

\* lines 78-83: the array branch up to its loop
CallArray ==
    /\ Entering
    /\ arg.to_parse \notin {<< >>, EmptyArrayText, EmptyObjectText}
    /\ arg.to_parse[1] = "["
    /\ stack' = Append(stack,
           [kind |-> "array", to_parse |-> arg.to_parse, start |-> arg.start,
            i |-> 1, value |-> << >>, key |-> << >>, ret |-> << >>,
            wait |-> "none"])
    /\ pc' = "loop"
    /\ UNCHANGED <<source, preprocessed, scanVars, arg, retval, result, error>>

\* lines 115-126: the object branch up to its loop
CallObject ==
    /\ Entering
    /\ arg.to_parse \notin {<< >>, EmptyArrayText, EmptyObjectText}
    /\ arg.to_parse[1] = "{"
    /\ LET colon_index == IndexFrom(arg.to_parse, ":", 0)
       IN  IF colon_index = -1
           THEN Raise(Raised("Invalid structure for object", arg.to_parse))
           ELSE /\ stack' = Append(stack,
                       [kind |-> "object", to_parse |-> arg.to_parse,
                        start |-> arg.start, i |-> 1 + colon_index,
                        value |-> << >>,
                        key |-> Slice(arg.to_parse, 1, colon_index),
                        ret |-> << >>, wait |-> "none"])
                /\ pc' = "loop"
                /\ UNCHANGED error
    /\ UNCHANGED <<source, preprocessed, scanVars, arg, retval, result>>

\* lines 171-181
CallPrimitive ==
    /\ Entering
    /\ arg.to_parse # << >>
    /\ arg.to_parse[1] \notin {"[", "{"}
    /\ LET out == ParsePrimitive(arg.to_parse)
       IN  IF out.error # NoError
           THEN Raise(out.error) /\ UNCHANGED retval
           ELSE Return(out.value) /\ UNCHANGED <<stack, error>>
    /\ UNCHANGED <<source, preprocessed, scanVars, arg, result>>

(***************************************************************************)
(* The while loops of the array branch (lines 84-113) and of the object    *)
(* branch (lines 127-169), one action per branch of the loop body.         *)
(***************************************************************************)
InLoop(kind) ==
    /\ pc = "loop"
    /\ Top.kind = kind
    /\ Top.wait = "none"

\* A faulty variant of AtBracket: never takes the scope_table branch.
AtBracketBug(f) == FALSE

\* The branches are tried in the order of the code: the position is a key
\* of scope_table (lines 86, 129); else the character is a comma (lines 90,
\* 133); else the position is the last one (lines 100, 153).
AtBracket(f) == (f.start + f.i) \in DOMAIN scope_table
AtComma(f) == ~AtBracket(f) /\ At(f.to_parse, f.i) = ","
AtLast(f) == ~AtBracket(f) /\ ~AtComma(f) /\ f.i = Len(f.to_parse) - 1

\* lines 86-89 and 129-132
Skip(f) ==
    LET skip == scope_table[f.start + f.i]
    IN  [f EXCEPT !.value = f.value \o SkippedSpan(f.to_parse, f.i, skip),
                  !.i = AfterSkip(f.i, skip)]

\* lines 109-111 and 165-167
Accumulate(f) ==
    [f EXCEPT !.value = f.value \o <<At(f.to_parse, f.i)>>,
              !.i = f.i + 1]

loopFrame == <<source, preprocessed, scanVars, arg, retval, result, error>>

ArraySkip ==
    /\ InLoop("array")
    /\ Top.i < Len(Top.to_parse)
    /\ AtBracket(Top)
    /\ stack' = WithTop(Skip(Top))
    /\ UNCHANGED <<pc, loopFrame>>

\* lines 90-97: the call; ResumeArray is lines 91, 98-99
ArrayComma ==
    /\ InLoop("array")
    /\ Top.i < Len(Top.to_parse)
    /\ AtComma(Top)
    /\ Call(Top, "comma")
    /\ UNCHANGED <<source, preprocessed, scanVars, retval, result, error>>

\* lines 100-107: the call; ResumeArray is lines 101, 108
ArrayLast ==
    /\ InLoop("array")
    /\ Top.i < Len(Top.to_parse)
    /\ AtLast(Top)
    /\ Call(Top, "last")
    /\ UNCHANGED <<source, preprocessed, scanVars, retval, result, error>>

ArrayAccumulate ==
    /\ InLoop("array")
    /\ Top.i < Len(Top.to_parse)
    /\ ~AtBracket(Top) /\ ~AtComma(Top) /\ ~AtLast(Top)
    /\ stack' = WithTop(Accumulate(Top))
    /\ UNCHANGED <<pc, loopFrame>>

\* line 113
ArrayReturn ==
    /\ InLoop("array")
    /\ Top.i >= Len(Top.to_parse)
    /\ Return(ListValue(Top.ret))
    /\ stack' = Front(stack)
    /\ UNCHANGED <<source, preprocessed, scanVars, arg, result, error>>

ObjectSkip ==
    /\ InLoop("object")
    /\ Top.i < Len(Top.to_parse)
    /\ AtBracket(Top)
    /\ stack' = WithTop(Skip(Top))
    /\ UNCHANGED <<pc, loopFrame>>

\* The key test and the call of lines 134-143 and 154-163.
CheckKeyAndCall(wait) ==
    IF ~KeyMatch(Top.key)
    THEN Raise(Raised("Invalid object key", Top.key)) /\ UNCHANGED arg
    ELSE Call([Top EXCEPT !.key = StripEnds(Top.key)], wait)
             /\ UNCHANGED error

\* lines 133-143: up to the call; ResumeObject is lines 139, 145-152
ObjectComma ==
    /\ InLoop("object")
    /\ Top.i < Len(Top.to_parse)
    /\ AtComma(Top)
    /\ CheckKeyAndCall("comma")
    /\ UNCHANGED <<source, preprocessed, scanVars, retval, result>>

\* lines 153-163: up to the call; ResumeObject is lines 159, 164
ObjectLast ==
    /\ InLoop("object")
    /\ Top.i < Len(Top.to_parse)
    /\ AtLast(Top)
    /\ CheckKeyAndCall("last")
    /\ UNCHANGED <<source, preprocessed, scanVars, retval, result>>

ObjectAccumulate ==
    /\ InLoop("object")
    /\ Top.i < Len(Top.to_parse)
    /\ ~AtBracket(Top) /\ ~AtComma(Top) /\ ~AtLast(Top)
    /\ stack' = WithTop(Accumulate(Top))
    /\ UNCHANGED <<pc, loopFrame>>

\* line 169
ObjectReturn ==
    /\ InLoop("object")
    /\ Top.i >= Len(Top.to_parse)
    /\ Return(DictValue(Top.ret))
    /\ stack' = Front(stack)
    /\ UNCHANGED <<source, preprocessed, scanVars, arg, result, error>>

(***************************************************************************)
(* A call returns: to apply_all (line 187), or into the loop that made it. *)
(***************************************************************************)
Returning == pc = "return"

ReturnToApplyAll ==
    /\ Returning
    /\ stack = << >>
    /\ result' = retval
    /\ pc' = "done"
    /\ UNCHANGED <<source, preprocessed, scanVars, stack, arg, retval, error>>

\* ret.append(...) and the rest of the branch (lines 91, 98-99; 101, 108)
ResumeArray ==
    /\ Returning
    /\ stack # << >>
    /\ Top.kind = "array"
    /\ stack' = WithTop(
           [Top EXCEPT !.ret = Append(Top.ret, retval),
                       !.value = IF Top.wait = "comma" THEN << >> ELSE @,
                       !.i = @ + 1,
                       !.wait = "none"])
    /\ pc' = "loop"
    /\ UNCHANGED <<source, preprocessed, scanVars, arg, retval, result, error>>

\* ret[key] = ... and the rest of the branch (lines 139, 145-152; 159, 164)
ResumeObject ==
    /\ Returning
    /\ stack # << >>
    /\ Top.kind = "object"
    /\ LET f == [Top EXCEPT !.ret = DictPut(Top.ret, Top.key, retval),
                            !.wait = "none"]
           colon_index == IndexFrom(f.to_parse, ":", f.i)
       IN  IF Top.wait = "last"
           THEN /\ stack' = WithTop([f EXCEPT !.i = @ + 1])
                /\ pc' = "loop"
                /\ UNCHANGED error
           ELSE IF colon_index = -1
           THEN Raise(Raised("Invalid structure for object", f.to_parse))
           ELSE /\ stack' = WithTop(
                       [f EXCEPT !.key = Slice(f.to_parse, f.i + 1, colon_index),
                                 !.value = << >>,
                                 !.i = 1 + colon_index])
                /\ pc' = "loop"
                /\ UNCHANGED error
    /\ UNCHANGED <<source, preprocessed, scanVars, arg, retval, result>>

(***************************************************************************)
(* The texts a run may be given.                                           *)
(***************************************************************************)
SeqsUpTo(S, n) == UNION {[1..k -> S] : k \in 0..n}

\* The texts of ts one after the other, sep between every two.
RECURSIVE Join(_, _)
Join(ts, sep) ==
    IF ts = << >> THEN << >>
    ELSE IF Len(ts) = 1 THEN ts[1]
    ELSE ts[1] \o sep \o Join(Tail(ts), sep)

\* White space, quotes and a letter, for preprocess.
PreChars == {" ", "\n", Quote, "a"}
PreSources == SeqsUpTo(PreChars, MaxPreLen)

\* Brackets around and between a digit, for assign_scopes.
BracketChars == {"[", "]", "{", "}", "1"}
BracketSources == SeqsUpTo(BracketChars, MaxBracketLen)

\* Texts without brackets, for the primitive branch.
PrimPieces ==
    {<<"1">>, <<".">>, <<"-">>, <<"e">>, <<Quote>>,
     TrueWord, FalseWord, NullWord}
PrimSources == {Join(ps, << >>) : ps \in SeqsUpTo(PrimPieces, MaxPrimPieces)}

\* Arrays of up to MaxElems elements: primitives, arrays of numbers and an
\* object.
ArrayText(elements) ==
    {<<"[">> \o Join(es, <<",">>) \o <<"]">> :
        es \in SeqsUpTo(elements, MaxElems)}
ArrayPrims == {<<"1">>, NullWord}
SmallObject == <<"{", Quote, "a", Quote, ":", "1", "}">>
ArraySources ==
    ArrayText(ArrayPrims \cup ArrayText({<<"1">>}) \cup {SmallObject})

\* Objects of up to MaxMembers members; the keys are a quoted string, a bare
\* word and a quoted string with a character after it.
MemberKeys ==
    {<<Quote, "a", Quote>>, <<"a">>, <<Quote, "a", Quote, "b">>}
MemberValues ==
    {<<"1">>, << >>, <<"[", "1", ",", "1", "]">>, SmallObject,
     <<"{", "b", ":", "1", "}">>}
Members == {k \o <<":">> \o v : k \in MemberKeys, v \in MemberValues}
ObjectSources ==
    {<<"{">> \o Join(ms, <<",">>) \o <<"}">> :
        ms \in SeqsUpTo(Members, MaxMembers)}

\* The first five sources of the program's own list (lines 207-217).
SourceString ==
    <<"\"", "H", "e", "l", "l", "o", "_", "W", "o", "r", "l", "d", "!",
      "\"">>

SourceNumber ==
    <<"1", "2", ".", "1", "2">>

SourceTrue ==
    <<"t", "r", "u", "e">>

SourceNull ==
    <<"n", "u", "l", "l">>

SourceNested ==
    <<"\n", " ", " ", " ", " ", " ", " ", " ", " ", "[", "\n", " ", " ",
      " ", " ", " ", " ", " ", " ", " ", " ", " ", " ", "[", "]", ",",
      "\n", " ", " ", " ", " ", " ", " ", " ", " ", " ", " ", " ", " ",
      "[", "n", "u", "l", "l", ",", " ", "t", "r", "u", "e", "]", ",",
      "\n", " ", " ", " ", " ", " ", " ", " ", " ", " ", " ", " ", " ",
      "[", "\"", "h", "e", "l", "l", "o", "\"", ",", " ", "[", "\"", "W",
      "O", "R", "L", "D", "\"", ",", " ", "\"", "!", "\"", "]", "]", "\n",
      " ", " ", " ", " ", " ", " ", " ", " ", "]", "\n", " ", " ", " ",
      " ", " ", " ", " ", " ">>

ProgramSources ==
    {SourceString, SourceNumber, SourceTrue, SourceNull, SourceNested}

Sources ==
    PreSources \cup BracketSources \cup PrimSources \cup ArraySources
        \cup ObjectSources \cup ProgramSources

(***************************************************************************)
(* The specification.                                                      *)
(***************************************************************************)
Init ==
    /\ source \in Sources
    /\ pc = "preprocess"
    /\ preprocessed = << >>
    /\ scan_i = 0
    /\ square_stack = << >>
    /\ curly_stack = << >>
    /\ type_stack = << >>
    /\ scope_table = << >>
    /\ stack = << >>
    /\ arg = NoArg
    /\ retval = NoValue
    /\ result = NoValue
    /\ error = NoError

Next ==
    \/ Preprocess
    \/ ScanOpenSquare
    \/ ScanCloseSquare
    \/ ScanOpenCurly
    \/ ScanCloseCurly
    \/ ScanOther
    \/ ScanEnd
    \/ CallEmpty
    \/ CallEmptyArray
    \/ CallEmptyObject
    \/ CallArray
    \/ CallObject
    \/ CallPrimitive
    \/ ArraySkip
    \/ ArrayComma
    \/ ArrayLast
    \/ ArrayAccumulate
    \/ ArrayReturn
    \/ ObjectSkip
    \/ ObjectComma
    \/ ObjectLast
    \/ ObjectAccumulate
    \/ ObjectReturn
    \/ ReturnToApplyAll
    \/ ResumeArray
    \/ ResumeObject

Spec == Init /\ [][Next]_vars

\* The run is one thread of control that never waits: a step that can be
\* taken is taken.
FairSpec == Spec /\ WF_vars(Next)

(***************************************************************************)
(* Properties.  The run has ended at pc = "done"; it returned a value when *)
(* error = NoError.                                                        *)
(***************************************************************************)
Done == pc = "done"
Returned == Done /\ error = NoError

\* assign_scopes returned its table: the run went on to parse.
ScanErrors ==
    {"Extra square bracket", "Extra curly bracket", "Mismatched bracket types",
     "Missing square bracket", "Missing curly bracket"}
TableReturned ==
    \/ pc \in {"call", "loop", "return"}
    \/ Done /\ error.msg \notin ScanErrors

Positions(s) == 0..(Len(s) - 1)
Count(s, chars, upto) == Cardinality({k \in 1..upto : s[k] \in chars})

(***************************************************************************)
(* C2: whenever assign_scopes returns a table, every entry (open, skip)    *)
(* joins an opening bracket to a closing bracket of its kind, the table    *)
(* has exactly one entry per opening bracket of the text, and the          *)
(* intervals [open, open + skip] of two entries are disjoint or one lies   *)
(* strictly inside the other.                                              *)
(***************************************************************************)
MatchingPair(text, open, close) ==
    /\ close \in Positions(text)
    /\ \/ At(text, open) = "[" /\ At(text, close) = "]"
       \/ At(text, open) = "{" /\ At(text, close) = "}"

ProperlyNested(a, sa, b, sb) ==
    \/ a + sa < b
    \/ b + sb < a
    \/ a < b /\ b + sb < a + sa
    \/ b < a /\ a + sa < b + sb

C2_ScopeTableSound ==
    TableReturned =>
        /\ DOMAIN scope_table =
               {p \in Positions(preprocessed) :
                    At(preprocessed, p) \in {"[", "{"}}
        /\ \A open \in DOMAIN scope_table :
               MatchingPair(preprocessed, open, open + scope_table[open])
        /\ \A a, b \in DOMAIN scope_table :
               a # b => ProperlyNested(a, scope_table[a], b, scope_table[b])

\* A table with a bracket of one kind nested in one of the other kind, and
\* a third bracket after the nested one.
C2_Witness ==
    /\ TableReturned
    /\ \E a, b, c \in DOMAIN scope_table :
          /\ a < b /\ b + scope_table[b] < a + scope_table[a]
          /\ At(preprocessed, a) # At(preprocessed, b)
          /\ b + scope_table[b] < c

(***************************************************************************)
(* C3: in assign_scopes, a closing bracket scanned while a bracket is open *)
(* and the innermost open bracket is of the other kind ends the call with  *)
(* "Mismatched bracket types", whether or not a bracket of the closing     *)
(* kind is open.                                                           *)
(***************************************************************************)
OpenerOf(c) == IF c = "]" THEN "[" ELSE "{"

ClosesOtherKind ==
    /\ Scanning
    /\ At(preprocessed, scan_i) \in {"]", "}"}
    /\ type_stack # << >>
    /\ Last(type_stack) # OpenerOf(At(preprocessed, scan_i))

C3_MismatchReported ==
    [][ClosesOtherKind =>
            (pc' = "done" /\ error'.msg = "Mismatched bracket types")]_vars

(***************************************************************************)
(* C4: the primitive parse of the token true returns the Boolean true and  *)
(* the primitive parse of the token false returns the Boolean false.       *)
(***************************************************************************)
C4_BooleanNamed ==
    [][/\ (Entering /\ arg.to_parse = TrueWord) =>
              (pc' = "return" /\ retval' = BoolValue(TRUE))
       /\ (Entering /\ arg.to_parse = FalseWord) =>
              (pc' = "return" /\ retval' = BoolValue(FALSE))]_vars

(***************************************************************************)
(* C5: a non-empty span that does not start with a bracket and is not, in  *)
(* full, a double-quoted string, a numeric literal, true, false or null    *)
(* makes parse raise "Unknown object" carrying the span.                   *)
(***************************************************************************)
IsQuotedString(s) ==
    /\ Len(s) >= 2
    /\ s[1] = Quote
    /\ s[Len(s)] = Quote
    /\ \A k \in 2..(Len(s) - 1) : s[k] # Quote

IsNumericLiteral(s) ==
    LET body == IF s # << >> /\ s[1] = "-" THEN Tail(s) ELSE s
        points == {k \in 1..Len(body) : body[k] = "."}
    IN  /\ body # << >>
        /\ \A k \in 1..Len(body) : body[k] \in Digits \cup {"."}
        /\ Cardinality(points) <= 1
        /\ body[1] \in Digits
        /\ body[Len(body)] \in Digits

IsPrimitiveText(s) ==
    \/ IsQuotedString(s)
    \/ IsNumericLiteral(s)
    \/ s \in {TrueWord, FalseWord, NullWord}

C5_UnknownPrimitive ==
    [][(/\ Entering
        /\ arg.to_parse # << >>
        /\ arg.to_parse[1] \notin {"[", "{"}
        /\ ~IsPrimitiveText(arg.to_parse)) =>
            (pc' = "done" /\ error' = Raised("Unknown object", arg.to_parse))]_vars

(***************************************************************************)
(* C6: in the object branch, a member whose text between its start and the *)
(* following colon is not exactly one double-quoted string makes the call  *)
(* raise "Invalid object key".                                             *)
(***************************************************************************)
\* The member of the call in its loop is complete: its key is tested next.
MemberComplete ==
    /\ InLoop("object")
    /\ Top.i < Len(Top.to_parse)
    /\ AtComma(Top) \/ AtLast(Top)

C6_InvalidKeyRejected ==
    [][(MemberComplete /\ ~IsQuotedString(Top.key)) =>
            (pc' = "done" /\ error'.msg = "Invalid object key")]_vars

(***************************************************************************)
(* C7: for a source with an even number of quotes, preprocess of its own   *)
(* output is that output; the output holds no white space outside a pair   *)
(* of quotes; and what stands between a pair of quotes in the source       *)
(* stands unchanged between the same pair in the output.                   *)
(***************************************************************************)
QuoteCount(s) == Count(s, {Quote}, Len(s))

\* The position of the n-th quote of s.
NthQuote(s, n) ==
    CHOOSE k \in 1..Len(s) : s[k] = Quote /\ Count(s, {Quote}, k) = n

\* What stands between the quotes of the n-th pair.
Quoted(s, n) == SubSeq(s, NthQuote(s, 2 * n - 1) + 1, NthQuote(s, 2 * n) - 1)

\* s[k] stands outside every pair of quotes.
Outside(s, k) == s[k] # Quote /\ Count(s, {Quote}, k) % 2 = 0

Preprocessed == pc = "assign_scopes" /\ scan_i = 0

C7_PreprocessIdempotent ==
    (Preprocessed /\ QuoteCount(source) % 2 = 0) =>
        /\ preprocess(preprocessed) = preprocessed
        /\ \A k \in 1..Len(preprocessed) :
               Outside(preprocessed, k) => preprocessed[k] \notin Whitespace
        /\ QuoteCount(preprocessed) = QuoteCount(source)
        /\ \A n \in 1..(QuoteCount(source) \div 2) :
               Quoted(preprocessed, n) = Quoted(source, n)

\* A source with white space inside a pair of quotes and outside it.
C7_Witness ==
    /\ Preprocessed
    /\ QuoteCount(source) = 2
    /\ \E k \in 1..Len(source) :
          source[k] \in Whitespace /\ Outside(source, k)
    /\ \E k \in 1..Len(preprocessed) : preprocessed[k] \in Whitespace
    /\ preprocessed # source

(***************************************************************************)
(* C8: every call of parse made from the array loop or the object loop is  *)
(* given the span of the compacted text that begins at its start, and      *)
(* so is every call in its loop: the position start + i looked up in       *)
(* scope_table holds the character to_parse[i].                            *)
(***************************************************************************)
Aligned(text, start) ==
    /\ start >= 0
    /\ start + Len(text) <= Len(preprocessed)
    /\ text = Slice(preprocessed, start, start + Len(text))

C8_OffsetsAligned ==
    /\ Entering => Aligned(arg.to_parse, arg.start)
    /\ \A d \in 1..Len(stack) :
          /\ Aligned(stack[d].to_parse, stack[d].start)
          /\ stack[d].i < Len(stack[d].to_parse) =>
                 At(preprocessed, stack[d].start + stack[d].i)
                     = At(stack[d].to_parse, stack[d].i)

\* A call made from a loop that was itself called from a loop, for a span
\* that is not a prefix of the text.
C8_Witness ==
    /\ Entering
    /\ Len(stack) >= 2
    /\ arg.to_parse # << >>
    /\ arg.start > stack[2].start
    /\ stack[2].start > 0
    /\ arg.to_parse # Slice(preprocessed, 0, Len(arg.to_parse))

(***************************************************************************)
(* C9: every call parse(T, assign_scopes(T), 0) ends, with a value or an   *)
(* error; in the array loop and the object loop each iteration moves the   *)
(* cursor i forward (by 1, by skip + 1 >= 2, or to 1 + the position of a   *)
(* colon at or after i); every call made from a loop is given a span       *)
(* shorter than the span of the call making it.                            *)
(***************************************************************************)
\* The call at depth d has ended an iteration of its loop: its record has
\* changed and it waits for no call.
IterationEnded(d) ==
    /\ d <= Len(stack')
    /\ stack'[d] # stack[d]
    /\ stack'[d].wait = "none"

\* The cursor moved from the record f to the record g in one of the three
\* ways.
Advanced(f, g) ==
    /\ g.i > f.i
    /\ \/ g.i = f.i + 1
       \/ /\ AtBracket(f)
          /\ scope_table[f.start + f.i] >= 1
          /\ g.i = f.i + scope_table[f.start + f.i] + 1
       \/ /\ f.kind = "object"
          /\ f.wait = "comma"
          /\ IndexFrom(f.to_parse, ":", f.i) >= f.i
          /\ g.i = 1 + IndexFrom(f.to_parse, ":", f.i)

CursorAdvances ==
    \A d \in 1..Len(stack) : IterationEnded(d) => Advanced(stack[d], stack'[d])

SpansShrink ==
    /\ (Entering /\ stack # << >>) => Len(arg.to_parse) < Len(Top.to_parse)
    /\ \A d \in 2..Len(stack) :
          Len(stack[d].to_parse) < Len(stack[d - 1].to_parse)

\* The call parse(preprocessed, scope_table, 0) of apply_all is entered.
ParseCalled == Entering /\ stack = << >>

C9_Terminates ==
    /\ ParseCalled ~> Done
    /\ [][CursorAdvances]_vars
    /\ []SpansShrink

\* The object loop has gone past a nested container by skip + 1 >= 2, has
\* called parse on it at the comma after it, and has moved on to the colon
\* of the next member.
C9_Witness ==
    /\ pc = "loop"
    /\ Top.kind = "object"
    /\ Top.wait = "none"
    /\ Top.ret # << >>
    /\ Top.i > 1 + IndexFrom(Top.to_parse, ":", 0)
    /\ At(Top.to_parse, Top.i - 1) = ":"
    /\ \E p \in DOMAIN scope_table :
          /\ Top.start < p
          /\ scope_table[p] >= 1
          /\ p + scope_table[p] < Top.start + Top.i

(***************************************************************************)
(* C10: when the pipeline returns a value for a compacted text that starts *)
(* with '[', the bracket paired with position 0 is the last character of   *)
(* the text: a text with content after that bracket is rejected.           *)
(***************************************************************************)
C10_NothingDropped ==
    (Returned /\ preprocessed # << >> /\ preprocessed[1] = "[") =>
        scope_table[0] = Len(preprocessed) - 1

(***************************************************************************)
(* C1: on an array text whose elements are primitives without commas or    *)
(* brackets, or arrays of that shape, the pipeline returns a list that is  *)
(* split at the commas of depth 0 of the interior only: its elements, in   *)
(* the order of the text, are the parses of the spans between those        *)
(* commas.  The text [] has no element and yields the empty list; every    *)
(* other such text yields 1 + (number of depth-0 commas) elements.         *)
(***************************************************************************)
\* How many square brackets are open after the first k characters of t.
Depth(t, k) == Count(t, {"["}, k) - Count(t, {"]"}, k)

\* The positions of the commas of t that stand in no nested array.
TopCommas(t) == {k \in 2..(Len(t) - 1) : t[k] = "," /\ Depth(t, k) = 1}

\* The members of the set of numbers S in increasing order.
Sorted(S) ==
    [n \in 1..Cardinality(S) |->
        CHOOSE x \in S : Cardinality({y \in S : y <= x}) = n]

\* The span of the n-th element of the array text t.
Element(t, n) ==
    LET cuts == Sorted({1, Len(t)} \cup TopCommas(t))
    IN  SubSeq(t, cuts[n] + 1, cuts[n + 1] - 1)

ElementCount(t) == IF t = EmptyArrayText THEN 0 ELSE 1 + Cardinality(TopCommas(t))

\* A span of t without a bracket or a comma, with one on either side.
IsLeaf(t, a, b) ==
    /\ a <= b
    /\ \A k \in a..b : t[k] \notin {"[", "]", ","}
    /\ t[a - 1] \in {"[", "]", ","}
    /\ t[b + 1] \in {"[", "]", ","}

\* t is an array whose elements are arrays of this shape or spans without
\* comma or bracket that parse as a primitive; no element is empty.
WellFormedArray(t) ==
    /\ Len(t) >= 2
    /\ t[1] = "["
    /\ \A k \in 1..Len(t) : t[k] \notin {"{", "}"}
    /\ \A k \in 1..(Len(t) - 1) : Depth(t, k) >= 1
    /\ Depth(t, Len(t)) = 0
    /\ \A k \in 2..Len(t) :
          /\ t[k] = "[" => t[k - 1] \in {"[", ","}
          /\ t[k] = "," => t[k - 1] \notin {"[", ","}
          /\ t[k] = "]" => t[k - 1] # ","
          /\ t[k - 1] = "]" => t[k] \in {"]", ","}
    /\ \A a, b \in 2..(Len(t) - 1) :
          IsLeaf(t, a, b) => ParsePrimitive(SubSeq(t, a, b)).error = NoError

\* The list the text stands for: split at the top commas, every element
\* taken in turn.
RECURSIVE Denotation(_)
Denotation(t) ==
    IF t[1] = "["
    THEN ListValue([n \in 1..ElementCount(t) |-> Denotation(Element(t, n))])
    ELSE ParsePrimitive(t).value

C1_SplitAtTopCommasOnly ==
    (Done /\ WellFormedArray(preprocessed)) =>
        /\ error = NoError
        /\ result.t = "list"
        /\ Len(result.v) = ElementCount(preprocessed)
        /\ result = Denotation(preprocessed)

\* The statement with 1 + (number of depth-0 commas) elements for every
\* such text, [] included.
C1_AsStated ==
    (Done /\ WellFormedArray(preprocessed)) =>
        /\ error = NoError
        /\ result.t = "list"
        /\ Len(result.v) = 1 + Cardinality(TopCommas(preprocessed))
        /\ \A n \in 1..Len(result.v) :
               result.v[n] = Denotation(Element(preprocessed, n))

\* A returned list whose text has a comma inside a nested array and a comma
\* of depth 0 after it.
C1_Witness ==
    /\ Returned
    /\ WellFormedArray(preprocessed)
    /\ \E j, k \in 2..(Len(preprocessed) - 1) :
          /\ j < k
          /\ preprocessed[j] = "," /\ Depth(preprocessed, j) >= 2
          /\ k \in TopCommas(preprocessed)
    /\ Len(result.v) = 2

=============================================================================
